---- MODULE Spec2Model ----
(***************************************************************************)
(* Model of the two detection engines of the repository:                   *)
(*   - crates/anomaly-detector/src/main.rs : analyze (z-score engine)      *)
(*   - crates/threshold-checker/src/lib.rs : check_thresholds              *)
(*                                                                         *)
(* Both engines compute on f64.  The model keeps the IEEE-754 binary       *)
(* format (round to nearest, ties to even, gradual underflow, overflow to  *)
(* infinity, NaN) and scales it down: Precision significand bits instead   *)
(* of 53 and unit exponents EMin..EMax instead of -1074..971.  The two     *)
(* zeros are identified: the engines only compare, add, subtract and       *)
(* multiply them, and divide only by a std_dev that is > 0.0.              *)
(***************************************************************************)
EXTENDS Integers, Sequences, FiniteSets, TLC

\* ------------------------------------------------------------------------
\* Bounds of the floating-point format
\* ------------------------------------------------------------------------
Precision == 9
EMin == 40
EMax == 20

\* unit exponents range over -EMin .. EMax
ELo == 0 - EMin

Max(a, b) == IF a >= b THEN a ELSE b
Min(a, b) == IF a <= b THEN a ELSE b

RECURSIVE Pow2(_)
Pow2(n) == IF n <= 0 THEN 1 ELSE 2 * Pow2(n - 1)

RECURSIVE BitLen(_)
BitLen(n) == IF n <= 0 THEN 0 ELSE 1 + BitLen(n \div 2)

\* ------------------------------------------------------------------------
\* f64 values: NaN, +-infinity, or s * m * 2^e with 0 <= m < 2^Precision.
\* Canonical form: m = 0 has s = 1, e = ELo; otherwise m >= 2^(Precision-1)
\* (normal) or e = ELo (subnormal).
\* ------------------------------------------------------------------------
NaN == [k |-> "nan", s |-> 1, m |-> 0, e |-> 0]
Inf(sg) == [k |-> "inf", s |-> sg, m |-> 0, e |-> 0]
Zero == [k |-> "fin", s |-> 1, m |-> 0, e |-> ELo]
Fin(sg, mm, ee) == [k |-> "fin", s |-> sg, m |-> mm, e |-> ee]

IsZero(a) == a.k = "fin" /\ a.m = 0

\* The significand mm (at most Precision + 1 bits after a carry) at unit
\* exponent ee: renormalise the carry, overflow to infinity.
Pack(sg, mm, ee) ==
    LET m2 == IF mm = Pow2(Precision) THEN Pow2(Precision - 1) ELSE mm
        e2 == IF mm = Pow2(Precision) THEN ee + 1 ELSE ee
    IN  IF m2 = 0 THEN Zero
        ELSE IF e2 > EMax THEN Inf(sg)
        ELSE Fin(sg, m2, e2)

\* Round the exact magnitude (M + f) * 2^E, with 0 <= f < 1 and sticky = (f > 0),
\* to the format: nearest, ties to even.  A caller that passes sticky = TRUE
\* passes an M of at least Precision + 2 bits.
Round(sg, M, E, sticky) ==
    IF M = 0 THEN Zero
    ELSE
    LET nb == BitLen(M)
        sh == Max(nb - Precision, ELo - E)
    IN  IF sh <= 0
        THEN LET shl == Min(Precision - nb, E - ELo)
             IN  Pack(sg, M * Pow2(shl), E - shl)
        ELSE IF sh > nb + 1 THEN Zero
        ELSE LET d    == Pow2(sh)
                 q    == M \div d
                 r    == M % d
                 half == d \div 2
                 up   == \/ r > half
                         \/ r = half /\ sticky
                         \/ r = half /\ ~sticky /\ q % 2 = 1
             IN  Pack(sg, IF up THEN q + 1 ELSE q, E + sh)

FromInt(n) == Round(IF n < 0 THEN -1 ELSE 1, IF n < 0 THEN 0 - n ELSE n, 0, FALSE)

FNeg(a) == IF a.k = "nan" \/ IsZero(a) THEN a ELSE [a EXCEPT !.s = 0 - a.s]
FAbs(a) == IF a.k = "nan" THEN a ELSE [a EXCEPT !.s = 1]

\* a + b for finite a and b, a.e >= b.e
AddAligned(a, b) ==
    LET d == a.e - b.e
    IN  IF b.m = 0 THEN a
        ELSE IF a.m = 0 THEN b
        ELSE IF d > Precision + 2 THEN a
        ELSE LET x == a.s * a.m * Pow2(d) + b.s * b.m
             IN  Round(IF x < 0 THEN -1 ELSE 1, IF x < 0 THEN 0 - x ELSE x, b.e, FALSE)

FAdd(a, b) ==
    IF a.k = "nan" \/ b.k = "nan" THEN NaN
    ELSE IF a.k = "inf" /\ b.k = "inf" THEN (IF a.s = b.s THEN a ELSE NaN)
    ELSE IF a.k = "inf" THEN a
    ELSE IF b.k = "inf" THEN b
    ELSE IF a.e >= b.e THEN AddAligned(a, b) ELSE AddAligned(b, a)

FSub(a, b) == FAdd(a, FNeg(b))

FMul(a, b) ==
    IF a.k = "nan" \/ b.k = "nan" THEN NaN
    ELSE IF a.k = "inf" \/ b.k = "inf"
         THEN (IF IsZero(a) \/ IsZero(b) THEN NaN ELSE Inf(a.s * b.s))
    ELSE Round(a.s * b.s, a.m * b.m, a.e + b.e, FALSE)

FDiv(a, b) ==
    IF a.k = "nan" \/ b.k = "nan" THEN NaN
    ELSE IF a.k = "inf" THEN (IF b.k = "inf" THEN NaN ELSE Inf(a.s * b.s))
    ELSE IF b.k = "inf" THEN Zero
    ELSE IF b.m = 0 THEN (IF a.m = 0 THEN NaN ELSE Inf(a.s))
    ELSE IF a.m = 0 THEN Zero
    ELSE LET kk  == Precision + 2 + BitLen(b.m) - BitLen(a.m)
             num == a.m * Pow2(kk)
         IN  Round(a.s * b.s, num \div b.m, a.e - b.e - kk, num % b.m # 0)

\* floor of the square root of x, lo * lo <= x < hi * hi
RECURSIVE ISqrt(_, _, _)
ISqrt(x, lo, hi) ==
    IF hi - lo <= 1 THEN lo
    ELSE LET mid == (lo + hi) \div 2
         IN  IF mid * mid <= x THEN ISqrt(x, mid, hi) ELSE ISqrt(x, lo, mid)

FSqrt(a) ==
    IF a.k = "nan" THEN NaN
    ELSE IF IsZero(a) THEN Zero
    ELSE IF a.s < 0 THEN NaN
    ELSE IF a.k = "inf" THEN a
    ELSE LET k0 == 2 * Precision + 3 - BitLen(a.m)
             kk == IF (a.e - k0) % 2 = 0 THEN k0 ELSE k0 + 1
             x  == a.m * Pow2(kk)
             r  == ISqrt(x, 0, Pow2(Precision + 3))
         IN  Round(1, r, (a.e - kk) \div 2, r * r # x)

\* a < b and a > b of f64: false when either side is NaN
MagLt(a, b) == a.e < b.e \/ (a.e = b.e /\ a.m < b.m)

FLt(a, b) ==
    IF a.k = "nan" \/ b.k = "nan" THEN FALSE
    ELSE IF a = b THEN FALSE
    ELSE IF a.k = "inf" THEN a.s < 0
    ELSE IF b.k = "inf" THEN b.s > 0
    ELSE IF a.s # b.s THEN a.s < b.s
    ELSE IF a.s > 0 THEN MagLt(a, b) ELSE MagLt(b, a)

FGt(a, b) == FLt(b, a)


\* The floats of n / d for small integers: what a decimal literal such as
\* 2.5 or 0.2 denotes (the nearest value of the format).
FromRat(n, d) == FDiv(FromInt(n), FromInt(d))

\* The f64 literals of the two engines
Lit3_0 == FromRat(3, 1)
Lit2_5 == FromRat(5, 2)
Lit2_0 == FromRat(2, 1)
Lit0_2 == FromRat(1, 5)
Lit0_1 == FromRat(1, 10)

\* ------------------------------------------------------------------------
\* State
\* ------------------------------------------------------------------------
VARIABLES
    pc,             \* position in the running call: "start", "loop", "done"
    readings,       \* analyze: payload.readings
    threshold,      \* analyze: payload.threshold
    values,         \* analyze: let values
    mean,           \* analyze: let mean
    std_dev,        \* analyze: let std_dev
    anomalies,      \* analyze: let mut anomalies
    idx,            \* index of the next reading the for loop takes
    response,       \* analyze: the AnalyzeResponse returned; NoResponse before
    chk_readings,   \* check_thresholds: readings
    min_threshold,  \* check_thresholds: min_threshold (Option<f64>)
    max_threshold,  \* check_thresholds: max_threshold (Option<f64>)
    alerts,         \* check_thresholds: let mut alerts
    returned        \* check_thresholds: the Vec<Alert> returned; <<>> before

vars == <<pc, readings, threshold, values, mean, std_dev, anomalies, idx,
          response, chk_readings, min_threshold, max_threshold, alerts, returned>>

analyzeVars == <<readings, threshold, values, mean, std_dev, anomalies, response>>
checkVars == <<chk_readings, min_threshold, max_threshold, alerts, returned>>

\* ------------------------------------------------------------------------
\* anomaly-detector: analyze
\* ------------------------------------------------------------------------
Reading(i, v, t) == [id |-> i, value |-> v, timestamp |-> t]

Anomaly(r, z, sev) ==
    [id |-> r.id, value |-> r.value, timestamp |-> r.timestamp,
     z_score |-> z, severity |-> sev]

NoResponse == [total_readings |-> -1]

default_threshold == Lit2_0

\* values.iter().sum::<f64>() over the first n values
RECURSIVE SumTo(_, _)
SumTo(vs, n) == IF n = 0 THEN Zero ELSE FAdd(SumTo(vs, n - 1), vs[n])

calculate_mean(vs) ==
    IF Len(vs) = 0 THEN Zero
    ELSE FDiv(SumTo(vs, Len(vs)), FromInt(Len(vs)))

\* values.iter().map(|v| (v - mean).powi(2)).sum::<f64>() over the first n values
RECURSIVE SqDevSumTo(_, _, _)
SqDevSumTo(vs, mu, n) ==
    IF n = 0 THEN Zero
    ELSE LET d == FSub(vs[n], mu)
         IN  FAdd(SqDevSumTo(vs, mu, n - 1), FMul(d, d))

\* calculate_std_dev without the square root (the variance)
calculate_std_dev_no_sqrt(vs, mu) ==
    IF Len(vs) <= 1 THEN Zero
    ELSE FDiv(SqDevSumTo(vs, mu, Len(vs)), FromInt(Len(vs) - 1))

calculate_std_dev(vs, mu) ==
    IF Len(vs) <= 1 THEN Zero
    ELSE FSqrt(FDiv(SqDevSumTo(vs, mu, Len(vs)), FromInt(Len(vs) - 1)))

\* SeverityOf with >= at both cut points
SeverityOfInclusive(abs_z) ==
    IF ~FLt(abs_z, Lit3_0) THEN "critical"
    ELSE IF ~FLt(abs_z, Lit2_5) THEN "high"
    ELSE "medium"

\* the severity of a finding with |z| = abs_z
SeverityOf(abs_z) ==
    IF FGt(abs_z, Lit3_0) THEN "critical"
    ELSE IF FGt(abs_z, Lit2_5) THEN "high"
    ELSE "medium"

\* whether the loop scores a reading at all
Scored(sd) == FGt(sd, Zero)

\* Exceeds with >=
ExceedsOrEquals(abs_z, th) == FGt(abs_z, th) \/ abs_z = th

\* whether a scored reading is pushed
Exceeds(abs_z, th) == FGt(abs_z, th)

\* PushAnomaly that inserts the finding at the front
PushAnomalyFront(anoms, r, mu, sd, th) ==
    IF Scored(sd)
    THEN LET z_score == FDiv(FSub(r.value, mu), sd)
             abs_z   == FAbs(z_score)
         IN  IF Exceeds(abs_z, th)
             THEN <<Anomaly(r, z_score, SeverityOf(abs_z))>> \o anoms
             ELSE anoms
    ELSE anoms

\* anomalies after the loop body ran for reading r
PushAnomaly(anoms, r, mu, sd, th) ==
    IF Scored(sd)
    THEN LET z_score == FDiv(FSub(r.value, mu), sd)
             abs_z   == FAbs(z_score)
         IN  IF Exceeds(abs_z, th)
             THEN Append(anoms, Anomaly(r, z_score, SeverityOf(abs_z)))
             ELSE anoms
    ELSE anoms

AnalyzeBegin ==
    /\ pc = "start"
    /\ values' = [i \in 1..Len(readings) |-> readings[i].value]
    /\ mean' = calculate_mean(values')
    /\ std_dev' = calculate_std_dev(values', mean')
    /\ anomalies' = <<>>
    /\ idx' = 1
    /\ pc' = "loop"
    /\ UNCHANGED <<readings, threshold, response>>
    /\ UNCHANGED checkVars

AnalyzeStep ==
    /\ pc = "loop"
    /\ idx <= Len(readings)
    /\ anomalies' = PushAnomaly(anomalies, readings[idx], mean, std_dev, threshold)
    /\ idx' = idx + 1
    /\ UNCHANGED <<pc, readings, threshold, values, mean, std_dev, response>>
    /\ UNCHANGED checkVars

\* AnalyzeReturn that counts the findings instead of the readings
AnalyzeReturnCountsFindings ==
    /\ pc = "loop"
    /\ idx > Len(readings)
    /\ response' = [anomalies |-> anomalies, total_readings |-> Len(anomalies),
                    mean |-> mean, std_dev |-> std_dev]
    /\ pc' = "done"
    /\ UNCHANGED <<readings, threshold, values, mean, std_dev, anomalies, idx>>
    /\ UNCHANGED <<chk_readings, min_threshold, max_threshold, alerts, returned>>

AnalyzeReturn ==
    /\ pc = "loop"
    /\ idx > Len(readings)
    /\ response' = [anomalies |-> anomalies, total_readings |-> Len(values),
                    mean |-> mean, std_dev |-> std_dev]
    /\ pc' = "done"
    /\ UNCHANGED <<readings, threshold, values, mean, std_dev, anomalies, idx>>
    /\ UNCHANGED checkVars

NextAnalyze == AnalyzeBegin \/ AnalyzeStep \/ AnalyzeReturn

\* ------------------------------------------------------------------------
\* threshold-checker: check_thresholds
\* ------------------------------------------------------------------------
None == [some |-> FALSE, v |-> Zero]
Some(x) == [some |-> TRUE, v |-> x]

Alert(r, breach, bound, sev) ==
    [reading_id |-> r.id, value |-> r.value, breach_type |-> breach,
     threshold_value |-> bound, severity |-> sev]

\* MinSeverity with the ratios taken of the magnitude of min
MinSeverityOfMagnitude(diff, min) ==
    IF FGt(diff, FMul(FAbs(min), Lit0_2)) THEN "critical"
    ELSE IF FGt(diff, FMul(FAbs(min), Lit0_1)) THEN "high"
    ELSE "medium"

\* the severity of a reading that is diff below min
MinSeverity(diff, min) ==
    IF FGt(diff, FMul(min, Lit0_2)) THEN "critical"
    ELSE IF FGt(diff, FMul(min, Lit0_1)) THEN "high"
    ELSE "medium"

\* MaxSeverity with >= at both cut points
MaxSeverityInclusive(diff, max) ==
    IF ~FLt(diff, FMul(max, Lit0_2)) THEN "critical"
    ELSE IF ~FLt(diff, FMul(max, Lit0_1)) THEN "high"
    ELSE "medium"

\* the severity of a reading that is diff above max
MaxSeverity(diff, max) ==
    IF FGt(diff, FMul(max, Lit0_2)) THEN "critical"
    ELSE IF FGt(diff, FMul(max, Lit0_1)) THEN "high"
    ELSE "medium"

\* BelowMin with <=
BelowOrAtMin(value, mn) == mn.some /\ (FLt(value, mn.v) \/ value = mn.v)

BelowMin(value, mn) == mn.some /\ FLt(value, mn.v)
AboveMax(value, mx) == mx.some /\ FGt(value, mx.v)

\* what the first if-let of the loop body pushes for reading r
MinAlerts(r, mn) ==
    IF BelowMin(r.value, mn)
    THEN <<Alert(r, "below_minimum", mn.v, MinSeverity(FSub(mn.v, r.value), mn.v))>>
    ELSE <<>>

\* what the second if-let of the loop body pushes for reading r
MaxAlerts(r, mx) ==
    IF AboveMax(r.value, mx)
    THEN <<Alert(r, "above_maximum", mx.v, MaxSeverity(FSub(r.value, mx.v), mx.v))>>
    ELSE <<>>

\* PushAlerts with the max check before the min check
PushAlertsMaxFirst(als, r, mn, mx) == als \o MaxAlerts(r, mx) \o MinAlerts(r, mn)

\* alerts after the loop body ran for reading r
PushAlerts(als, r, mn, mx) == als \o MinAlerts(r, mn) \o MaxAlerts(r, mx)

CheckBegin ==
    /\ pc = "start"
    /\ alerts' = <<>>
    /\ idx' = 1
    /\ pc' = "loop"
    /\ UNCHANGED <<chk_readings, min_threshold, max_threshold, returned>>
    /\ UNCHANGED analyzeVars

CheckStep ==
    /\ pc = "loop"
    /\ idx <= Len(chk_readings)
    /\ alerts' = PushAlerts(alerts, chk_readings[idx], min_threshold, max_threshold)
    /\ idx' = idx + 1
    /\ UNCHANGED <<pc, chk_readings, min_threshold, max_threshold, returned>>
    /\ UNCHANGED analyzeVars

CheckReturn ==
    /\ pc = "loop"
    /\ idx > Len(chk_readings)
    /\ returned' = alerts
    /\ pc' = "done"
    /\ UNCHANGED <<chk_readings, min_threshold, max_threshold, alerts, idx>>
    /\ UNCHANGED analyzeVars

NextCheck == CheckBegin \/ CheckStep \/ CheckReturn

\* ------------------------------------------------------------------------
\* Inputs
\* ------------------------------------------------------------------------
MaxReadings == 3
MaxChecked == 2
CommonCount == 20

\* the largest finite value of the format
MaxFinite == Fin(1, Pow2(Precision) - 1, EMax)

RECURSIVE SeqsUpTo(_, _)
SeqsUpTo(S, n) ==
    IF n = 0 THEN {<<>>}
    ELSE LET shorter == SeqsUpTo(S, n - 1)
         IN  shorter \cup {Append(q, x) : q \in {t \in shorter : Len(t) = n - 1}, x \in S}

Rep(x, n) == [i \in 1..n |-> x]

\* the ids and timestamp tokens a caller gives the readings: numbered, or all alike
IdSchemes == {"numbered", "alike"}
IdOf(scheme, i) == IF scheme = "numbered" THEN i ELSE 7
StampOf(scheme, i) == IF scheme = "numbered" THEN "T10:" \o ToString(i) ELSE "T10:00"

MkReadings(vs, scheme) ==
    [i \in 1..Len(vs) |-> Reading(IdOf(scheme, i), vs[i], StampOf(scheme, i))]

MkPairs(vs) == [i \in 1..Len(vs) |-> [id |-> i, value |-> vs[i]]]

\* analyze: every batch of up to MaxReadings values, and batches of one
\* frequent value, some second value and one last value
SmallValues == {Zero, FromInt(1), FromInt(2), FromRat(1, 10), MaxFinite}
ShapeCounts == {3, 7, 9, 10}
ShapedBatches ==
    {Rep(Zero, n1) \o Rep(FromInt(b), n2) \o <<FromInt(c)>> :
        n1 \in ShapeCounts, n2 \in {0, 1}, b \in {1, 4}, c \in {10, 11}}
Batches == SeqsUpTo(SmallValues, MaxReadings) \cup ShapedBatches
Thresholds ==
    {FromInt(-1), Zero, FromRat(1, 2), FromInt(1), default_threshold, FromRat(5, 2)}

Idle ==
    /\ readings = <<>> /\ threshold = default_threshold
    /\ values = <<>> /\ mean = Zero /\ std_dev = Zero /\ anomalies = <<>>
    /\ response = NoResponse

IdleCheck ==
    /\ chk_readings = <<>> /\ min_threshold = None /\ max_threshold = None
    /\ alerts = <<>> /\ returned = <<>>

InitAnalyze ==
    /\ pc = "start"
    /\ idx = 1
    /\ \E vs \in Batches : \E scheme \in IdSchemes : readings = MkReadings(vs, scheme)
    /\ threshold \in Thresholds
    /\ values = <<>> /\ mean = Zero /\ std_dev = Zero /\ anomalies = <<>>
    /\ response = NoResponse
    /\ IdleCheck

SpecAnalyze == InitAnalyze /\ [][NextAnalyze]_vars

\* analyze: CommonCount readings of one value and one reading of another, at
\* any place of the batch, with the default threshold
OutlierValues ==
    {FromInt(50), FromInt(500), Zero, FromInt(1), FromRat(1, 10), MaxFinite}

OutlierBatch(common, other, at) ==
    [i \in 1..(CommonCount + 1) |-> IF i = at THEN other ELSE common]

InitOutlier ==
    /\ pc = "start"
    /\ idx = 1
    /\ \E common \in OutlierValues : \E other \in OutlierValues \ {common} :
         \E at \in 1..(CommonCount + 1) :
            readings = MkReadings(OutlierBatch(common, other, at), "numbered")
    /\ threshold = default_threshold
    /\ values = <<>> /\ mean = Zero /\ std_dev = Zero /\ anomalies = <<>>
    /\ response = NoResponse
    /\ IdleCheck

SpecOutlier == InitOutlier /\ [][NextAnalyze]_vars

\* check_thresholds: every list of up to MaxChecked readings, every pair of bounds
\* the negative value nearest to zero
NegTiny == Fin(-1, 1, ELo)

CheckValues ==
    {FromInt(-11), NegTiny, Zero, FromInt(35), FromInt(42), FromInt(46), FromInt(50),
     FromInt(60), FromInt(90), Inf(1), NaN}
BoundValues == {FromInt(-10), Zero, FromInt(50), FromInt(80), Inf(1), NaN}
Bounds == {None} \cup {Some(b) : b \in BoundValues}

InitCheck ==
    /\ pc = "start"
    /\ idx = 1
    /\ \E vs \in SeqsUpTo(CheckValues, MaxChecked) : chk_readings = MkPairs(vs)
    /\ min_threshold \in Bounds
    /\ max_threshold \in Bounds
    /\ alerts = <<>> /\ returned = <<>>
    /\ Idle

SpecCheck == InitCheck /\ [][NextCheck]_vars

\* ------------------------------------------------------------------------
\* Properties of analyze
\* ------------------------------------------------------------------------
Returned == response # NoResponse

\* what a finding keeps of its reading, and the same of a reading
FindingKey(a) == <<a.id, a.value, a.timestamp>>
KeysOfFindings(as) == [i \in 1..Len(as) |-> FindingKey(as[i])]
KeysOfReadings(rs) == [i \in 1..Len(rs) |-> FindingKey(rs[i])]

\* a[i..] is a subsequence of b[j..]
RECURSIVE SubseqFrom(_, _, _, _)
SubseqFrom(a, i, b, j) ==
    IF i > Len(a) THEN TRUE
    ELSE IF j > Len(b) THEN FALSE
    ELSE IF a[i] = b[j] THEN SubseqFrom(a, i + 1, b, j + 1)
    ELSE SubseqFrom(a, i, b, j + 1)

\* the sum of the first n readings' values, in input order
RECURSIVE BatchSum(_)
BatchSum(n) == IF n = 0 THEN Zero ELSE FAdd(BatchSum(n - 1), readings[n].value)

\* the sum of the first n readings' squared deviations from the returned mean
RECURSIVE BatchSqDev(_)
BatchSqDev(n) ==
    IF n = 0 THEN Zero
    ELSE FAdd(BatchSqDev(n - 1),
              FMul(FSub(readings[n].value, response.mean),
                   FSub(readings[n].value, response.mean)))

\* |(value - mean) / std_dev| of reading r, from the returned mean and std_dev
AbsZ(r) == FAbs(FDiv(FSub(r.value, response.mean), response.std_dev))
AbsZExceeds(r) == FGt(AbsZ(r), threshold)

\* C1: when the returned std_dev is > 0, the mean is the sum of ALL readings
\* over n, the std_dev is the square root of the summed squared deviations
\* of ALL readings over n - 1, and the findings are exactly the readings with
\* |(value - mean) / std_dev| > threshold (strictly), in input order.
C1_EmittedIffExceeds ==
    (Returned /\ FGt(response.std_dev, Zero)) =>
        /\ response.mean = FDiv(BatchSum(Len(readings)), FromInt(Len(readings)))
        /\ response.std_dev =
              FSqrt(FDiv(BatchSqDev(Len(readings)), FromInt(Len(readings) - 1)))
        /\ KeysOfFindings(response.anomalies) =
              KeysOfReadings(SelectSeq(readings, AbsZExceeds))

\* C1 witness: a returned batch with std_dev > 0 and a threshold > 0 in which
\* one reading's |z| equals the threshold (not emitted) and another is emitted.
C1_Witness ==
    /\ Returned
    /\ FGt(response.std_dev, Zero)
    /\ FGt(threshold, Zero)
    /\ \E i \in 1..Len(readings) : AbsZ(readings[i]) = threshold
    /\ Len(response.anomalies) >= 1

AllEqual(rs) == \A i, j \in 1..Len(rs) : rs[i].value = rs[j].value

\* C2: an empty, single-reading or constant batch returns std_dev == 0.0 and
\* no findings (and mean == 0.0 when empty).
C2_DegenerateBatchIsSilent ==
    (Returned /\ AllEqual(readings)) =>
        /\ response.std_dev = Zero
        /\ response.anomalies = <<>>
        /\ (Len(readings) = 0 => response.mean = Zero)

\* C3: every finding is critical iff |z| > 3.0, high iff 2.5 < |z| <= 3.0,
\* medium otherwise, whatever the threshold.
C3_SeverityTiers ==
    \A k \in 1..Len(anomalies) :
        LET a == FAbs(anomalies[k].z_score)
            sev == anomalies[k].severity
        IN  /\ sev \in {"critical", "high", "medium"}
            /\ (sev = "critical") = FGt(a, Lit3_0)
            /\ (sev = "high") = (FGt(a, Lit2_5) /\ ~FGt(a, Lit3_0))
            /\ (sev = "medium") = ~FGt(a, Lit2_5)

\* C3 witness: a returned finding whose |z| is exactly 3.0, which is high.
C3_Witness ==
    /\ Returned
    /\ \E k \in 1..Len(response.anomalies) :
          /\ FAbs(response.anomalies[k].z_score) = Lit3_0
          /\ response.anomalies[k].severity = "high"

\* Further cases of C3 that are reached: |z| exactly 2.5 is medium; a critical finding.
C3_ReachedMediumAtCut ==
    \E k \in 1..Len(anomalies) :
        /\ FAbs(anomalies[k].z_score) = Lit2_5
        /\ anomalies[k].severity = "medium"
C3_ReachedCritical ==
    \E k \in 1..Len(anomalies) : anomalies[k].severity = "critical"

\* C7: the findings are a subsequence of the readings, each with the id, value
\* and timestamp of its reading, and the response returns them as they are.
C7_FindingsAreSubsequence ==
    /\ SubseqFrom(KeysOfFindings(anomalies), 1,
                  KeysOfReadings(SubSeq(readings, 1, idx - 1)), 1)
    /\ Returned => response.anomalies = anomalies

\* C7 witness: a returned batch with at least two findings and a reading
\* between them that is not a finding.
C7_Witness ==
    /\ Returned
    /\ Len(response.anomalies) >= 2
    /\ Len(response.anomalies) < Len(readings)
    /\ response.anomalies[1].id = readings[1].id
    /\ response.anomalies[1].id # response.anomalies[2].id

\* C8: total_readings is the number of input readings.
C8_TotalIsInputLength ==
    Returned => response.total_readings = Len(readings)

\* C8 witness: a returned batch of three readings, one of them a finding, and
\* a returned batch can also have zero variance (C8_ReachedZeroVariance).
C8_Witness ==
    /\ Returned
    /\ Len(readings) = 3
    /\ Len(response.anomalies) = 1
C8_ReachedZeroVariance ==
    Returned /\ Len(readings) = 3 /\ response.std_dev = Zero

\* C9 as claimed: whatever the two values are, the one differing reading is
\* the only finding and it is critical.
OutlierIndex ==
    CHOOSE i \in 1..Len(readings) :
        \A j \in 1..Len(readings) : j # i => readings[j].value # readings[i].value

OnlyOutlierIsCritical ==
    /\ Len(response.anomalies) = 1
    /\ FindingKey(response.anomalies[1]) = FindingKey(readings[OutlierIndex])
    /\ response.anomalies[1].severity = "critical"

C9_AnyTwoValues == Returned => OnlyOutlierIsCritical

\* C9 as amended: for twenty readings of 50.0 and one of 500.0, at any place
\* of the batch, the 500.0 reading is the only finding and it is critical.
C9_FiftyAndFiveHundred ==
    (/\ Returned
     /\ readings[OutlierIndex].value = FromInt(500)
     /\ \E j \in 1..Len(readings) : readings[j].value = FromInt(50))
    => OnlyOutlierIsCritical

\* C9 witness: the batch of the test (20 x 50.0, then 500.0) has returned its
\* one finding, reading 21.
C9_Witness ==
    /\ Returned
    /\ Len(readings) = CommonCount + 1
    /\ \A j \in 1..CommonCount : readings[j].value = FromInt(50)
    /\ readings[CommonCount + 1].value = FromInt(500)
    /\ Len(response.anomalies) = 1
    /\ response.anomalies[1].id = CommonCount + 1

\* ------------------------------------------------------------------------
\* Properties of check_thresholds
\* ------------------------------------------------------------------------
Checked == pc = "done" /\ ~Returned

IsBelow(a) == a.breach_type = "below_minimum"
IsAbove(a) == a.breach_type = "above_maximum"
PairsOfAlerts(as) == [i \in 1..Len(as) |-> <<as[i].reading_id, as[i].value>>]
PairsOfReadings(rs) == [i \in 1..Len(rs) |-> <<rs[i].id, rs[i].value>>]
UnderMin(r) == min_threshold.some /\ FLt(r.value, min_threshold.v)
OverMax(r) == max_threshold.some /\ FGt(r.value, max_threshold.v)

\* C4: the below_minimum alerts are exactly the readings with value < min (min
\* present), each recording min; the above_maximum alerts are exactly the
\* readings with value > max (max present), each recording max; there is no
\* other alert, and none at all without bounds.
C4_AlertIffBreach ==
    Checked =>
        /\ \A k \in 1..Len(returned) : IsBelow(returned[k]) \/ IsAbove(returned[k])
        /\ PairsOfAlerts(SelectSeq(returned, IsBelow)) =
              PairsOfReadings(SelectSeq(chk_readings, UnderMin))
        /\ PairsOfAlerts(SelectSeq(returned, IsAbove)) =
              PairsOfReadings(SelectSeq(chk_readings, OverMax))
        /\ \A k \in 1..Len(returned) :
              returned[k].threshold_value =
                 IF IsBelow(returned[k]) THEN min_threshold.v ELSE max_threshold.v
        /\ (~min_threshold.some /\ ~max_threshold.some) => returned = <<>>

\* C4 witness: with a minimum set, one reading equal to it (no alert) and one
\* reading below it (one alert) have been checked.
C4_Witness ==
    /\ Checked
    /\ min_threshold.some
    /\ Len(chk_readings) = 2
    /\ chk_readings[1].value = min_threshold.v
    /\ Len(returned) = 1
    /\ IsBelow(returned[1])

BreachDiff(a) ==
    IF IsBelow(a) THEN FSub(a.threshold_value, a.value)
    ELSE FSub(a.value, a.threshold_value)

\* C5: an alert is critical iff diff > 0.2 * bound, high iff
\* 0.1 * bound < diff <= 0.2 * bound, medium otherwise; under min 50 the values
\* 0 and 35 are critical and 46 is medium.
C5_SeverityByBound ==
    \A k \in 1..Len(alerts) :
        LET a    == alerts[k]
            diff == BreachDiff(a)
            crit == FGt(diff, FMul(Lit0_2, a.threshold_value))
            high == FGt(diff, FMul(Lit0_1, a.threshold_value))
        IN  /\ (a.severity = "critical") = crit
            /\ (a.severity = "high") = (high /\ ~crit)
            /\ (a.severity = "medium") = (~high /\ ~crit)
            /\ (IsBelow(a) /\ a.threshold_value = FromInt(50)) =>
                  /\ a.value \in {Zero, FromInt(35)} => a.severity = "critical"
                  /\ a.value = FromInt(46) => a.severity = "medium"

\* C5 witness: under min 50 the readings 35 and 46 have been checked: a
\* critical and a medium alert.
C5_Witness ==
    /\ Checked
    /\ Len(returned) = 2
    /\ returned[1].value = FromInt(35) /\ returned[1].severity = "critical"
    /\ returned[2].value = FromInt(46) /\ returned[2].severity = "medium"
    /\ returned[1].threshold_value = FromInt(50)

\* Further cases of C5 that are reached: a high alert on each side.
C5_ReachedHigh ==
    /\ \E k \in 1..Len(alerts) : IsBelow(alerts[k]) /\ alerts[k].severity = "high"
    /\ \E k \in 1..Len(alerts) : IsAbove(alerts[k]) /\ alerts[k].severity = "high"

MinAboveMax ==
    min_threshold.some /\ max_threshold.some /\ FGt(min_threshold.v, max_threshold.v)

\* what one iteration of the loop may add to alerts
C6_StepAddsInOrder ==
    alerts' # alerts =>
        LET n == Len(alerts') - Len(alerts)
            r == chk_readings[idx]
        IN  /\ n \in {1, 2}
            /\ SubSeq(alerts', 1, Len(alerts)) = alerts
            /\ \A k \in (Len(alerts) + 1)..Len(alerts') :
                  alerts'[k].reading_id = r.id /\ alerts'[k].value = r.value
            /\ idx' = idx + 1
            /\ n = 2 =>
                  /\ MinAboveMax
                  /\ IsBelow(alerts'[Len(alerts) + 1])
                  /\ IsAbove(alerts'[Len(alerts) + 2])

\* C6: alerts are appended in input order, a reading's alerts together; two
\* alerts for one reading need min > max and come below_minimum first; without
\* min > max there are never more alerts than readings checked.
C6_OrderAndMultiplicity ==
    /\ [][C6_StepAddsInOrder]_vars
    /\ [](~MinAboveMax => Len(alerts) <= idx - 1)
    /\ []((Checked /\ ~MinAboveMax) => Len(returned) <= Len(chk_readings))
    /\ [](Checked => returned = alerts)

\* C6 witness: two readings have been checked and each produced two alerts.
C6_Witness ==
    /\ Checked
    /\ Len(chk_readings) = 2
    /\ Len(returned) = 4
    /\ IsBelow(returned[1]) /\ IsAbove(returned[2])

\* C10: every alert for a bound that is zero or negative is critical.
C10_NonPositiveBoundIsCritical ==
    \A k \in 1..Len(alerts) :
        (alerts[k].threshold_value = Zero \/ FLt(alerts[k].threshold_value, Zero))
            => alerts[k].severity = "critical"

\* C10 witness: the smallest breach of a zero bound and a breach of a negative
\* bound have both been alerted.
C10_Witness ==
    /\ Checked
    /\ \E k \in 1..Len(returned) :
          /\ returned[k].threshold_value = Zero
          /\ returned[k].value = NegTiny
    /\ \E k \in 1..Len(returned) : FLt(returned[k].threshold_value, Zero)

====
